---- MODULE Spec2Model ----
(***************************************************************************)
(* The task-orchestration and delivery-notification core of the LLM code   *)
(* deployment service: the secret registry (app/utils.py), the task record *)
(* store and the request handlers and background pipelines (app/main.py),  *)
(* and the evaluation notifier with its retry loop                         *)
(* (app/evaluation_client.py).                                             *)
(*                                                                         *)
(* One action is one run of a coroutine between two suspension points: a   *)
(* request handler has no await and is one action; a pipeline run is one   *)
(* action per awaited collaborator call.                                   *)
(***************************************************************************)
EXTENDS Integers, Sequences, FiniteSets, TLC

VARIABLES
    SECRET_STORE,   \* utils.SECRET_STORE: email -> secret (a dict, keys = bound emails)
    task_store,     \* main.task_store: task id -> [request, status]
    runs,           \* the background tasks scheduled so far, in acceptance order
    session,        \* EvaluationClient.session: which ClientSession, and its closed flag
    trace           \* what a test harness around verify_secret / submit_evaluation observes

vars == <<SECRET_STORE, task_store, runs, session, trace>>

----------------------------------------------------------------------------
(* Inputs and bounds *)

\* identities the secret registry is called with
Emails == {"a@x.com", "b@x.com"}
\* identities that send HTTP requests
Clients == {"a@x.com"}
Secrets == {"s1", "s2"}
Tasks == {"alpha"}
None == "None"

\* models.BuildRequest.round: Field(ge=1, le=2)
BuildRounds == 1..2
\* models.RevisionRequest.round: Field(ge=2, le=2)
RevisionRounds == 2..2

\* HTTP statuses the evaluation endpoint answers with in the model
Statuses == {200, 201, 500}
\* what one POST to the evaluation endpoint ends with: a response, or an exception
Outcomes == {[exc |-> FALSE, status |-> s] : s \in Statuses}
            \cup {[exc |-> TRUE, status |-> 0]}

\* number of requests accepted (background tasks scheduled) in one behaviour
MaxRuns == 2
\* number of direct verify_secret calls the harness makes
MaxCalls == 4

max_retries == 5
base_delay == 1

----------------------------------------------------------------------------
(* Pure helpers *)

\* f"{request.task}-{request.round}": injective, round being one digit
TaskId(task, round) == <<task, round>>

TaskIds == {TaskId(t, r) : t \in Tasks, r \in 1..2}

\* request.dict(): the fields of the request body that the core reads
RequestDict(email, secret, task, round) ==
    [email |-> email, secret |-> secret, task |-> task, round |-> round]

\* dict.get(key): the value, or None when the key is absent
DictGet(d, key) == IF key \in DOMAIN d THEN d[key] ELSE None

RECURSIVE Pow2(_)
Pow2(n) == IF n = 0 THEN 1 ELSE 2 * Pow2(n - 1)

\* delay = base_delay * (2 ** attempt)
Delay(attempt) == base_delay * Pow2(attempt)

\* verify_secret without the comparison: every secret passes, the last is bound
verify_secret_last(store, email, secret) ==
    [ok |-> TRUE, store |-> (email :> secret) @@ store]

\* verify_secret storing the supplied secret on every call
verify_secret_rebinding(store, email, secret) ==
    LET expected_secret == DictGet(store, email) IN
    [ok |-> expected_secret = None \/ expected_secret = secret,
     store |-> (email :> secret) @@ store]

\* verify_secret: the result and the registry after the call
verify_secret(store, email, secret) ==
    LET expected_secret == DictGet(store, email) IN
    IF expected_secret = None
    THEN [ok |-> TRUE, store |-> (email :> secret) @@ store]
    ELSE [ok |-> expected_secret = secret, store |-> store]

\* "except Exception as e: raise HTTPException(status_code=500, ...)" around a
\* handler body: HTTPException is an Exception, so the clause catches the
\* body's own HTTPException(401) / HTTPException(404) too
ExceptClause(raised_code) == 500

\* self.session = None: no ClientSession made yet.  A session object is the
\* count of ClientSession() calls that made it, with its closed flag.
NoSession == [id |-> 0, closed |-> FALSE]

\* "self.session is None or self.session.closed" fails
IsOpen(s) == s.id # 0 /\ ~s.closed

\* get_session making a ClientSession on every call
get_session_fresh(s) == [id |-> s.id + 1, closed |-> FALSE]

\* EvaluationClient.get_session
get_session(s) == IF IsOpen(s) THEN s ELSE [id |-> s.id + 1, closed |-> FALSE]

\* EvaluationClient.close: the session after the call
close(s) == IF IsOpen(s) THEN [s EXCEPT !.closed = TRUE] ELSE s

----------------------------------------------------------------------------
(* Background tasks *)

\* the pipeline awaited inside the handler instead of scheduled: it has
\* called the generation adapter before the response is returned
NewRunInline(kind, request) ==
    [kind |-> kind, req |-> request, pc |-> "generate",
     stages |-> <<"generate">>,
     commit_sha |-> None, attempt |-> 0, delay |-> 0, success |-> None]

\* a task handed to background_tasks.add_task, not started yet
NewRun(kind, request) ==
    [kind |-> kind, req |-> request, pc |-> "scheduled",
     stages |-> <<>>,          \* collaborators invoked so far, in order
     commit_sha |-> None, attempt |-> 0, delay |-> 0,
     success |-> None]         \* what submit_evaluation returned

RunId(run) == TaskId(run.req.task, run.req.round)

\* the status written into every record of the store
SetStatusAll(store, task_id, status) ==
    [id \in DOMAIN store |-> [store[id] EXCEPT !.status = status]]

\* task_store[f"{task}-{round}"]["status"] = status
SetStatus(store, task_id, status) == [store EXCEPT ![task_id].status = status]

Init ==
    /\ SECRET_STORE = <<>>
    /\ task_store = <<>>
    /\ runs = <<>>
    /\ session = NoSession
    /\ trace = <<>>

----------------------------------------------------------------------------
(* Request handlers.  None awaits, so each runs as one atomic step; each is  *)
(* written as the response it returns and the state it leaves, as a function *)
(* of the current state and the request.                                     *)

\* POST /api/deploy
deploy_app(email, secret, task, round) ==
    LET v == verify_secret(SECRET_STORE, email, secret)
        request == RequestDict(email, secret, task, round)
        task_id == TaskId(task, round)
    IN  IF ~v.ok
        THEN [response |-> [code |-> ExceptClause(401)],
              SECRET_STORE |-> v.store, task_store |-> task_store, runs |-> runs]
        ELSE [response |-> [code |-> 200, status |-> "accepted", task_id |-> task_id],
              SECRET_STORE |-> v.store,
              task_store |-> (task_id :> [request |-> request,
                                          status |-> "processing"]) @@ task_store,
              runs |-> Append(runs, NewRun("build", request))]

\* the revision precondition asking for a completed round 1
Round1Completed(store, task) ==
    /\ TaskId(task, 1) \in DOMAIN store
    /\ store[TaskId(task, 1)].status = "completed"

\* the revision precondition not tested
Round1Unchecked(store, task) == TRUE

\* "if round1_task_id not in task_store" fails
Round1Exists(store, task) == TaskId(task, 1) \in DOMAIN store

\* the revision handler storing the record before it looks for round 1
revise_app_store_first(email, secret, task, round) ==
    LET v == verify_secret(SECRET_STORE, email, secret)
        request == RequestDict(email, secret, task, round)
        task_id == TaskId(task, round)
        stored == (task_id :> [request |-> request,
                               status |-> "processing"]) @@ task_store
    IN  IF ~v.ok
        THEN [response |-> [code |-> ExceptClause(401)],
              SECRET_STORE |-> v.store, task_store |-> task_store, runs |-> runs]
        ELSE IF ~Round1Exists(task_store, task)
        THEN [response |-> [code |-> ExceptClause(404)],
              SECRET_STORE |-> v.store, task_store |-> stored, runs |-> runs]
        ELSE [response |-> [code |-> 200, status |-> "accepted", task_id |-> task_id],
              SECRET_STORE |-> v.store, task_store |-> stored,
              runs |-> Append(runs, NewRun("revision", request))]

\* POST /api/revise
revise_app(email, secret, task, round) ==
    LET v == verify_secret(SECRET_STORE, email, secret)
        request == RequestDict(email, secret, task, round)
        task_id == TaskId(task, round)
    IN  IF ~v.ok
        THEN [response |-> [code |-> ExceptClause(401)],
              SECRET_STORE |-> v.store, task_store |-> task_store, runs |-> runs]
        ELSE IF ~Round1Exists(task_store, task)
        THEN [response |-> [code |-> ExceptClause(404)],
              SECRET_STORE |-> v.store, task_store |-> task_store, runs |-> runs]
        ELSE [response |-> [code |-> 200, status |-> "accepted", task_id |-> task_id],
              SECRET_STORE |-> v.store,
              task_store |-> (task_id :> [request |-> request,
                                          status |-> "processing"]) @@ task_store,
              runs |-> Append(runs, NewRun("revision", request))]

\* what get_task_status answers for task_id over a store: 404, or the id,
\* the status and the stored request (request.dict(), the secret included)
StatusResponse(store, task_id) ==
    IF task_id \notin DOMAIN store
    THEN [code |-> 404]
    ELSE [code |-> 200, task_id |-> task_id,
          status |-> store[task_id].status,
          request |-> store[task_id].request]

\* a status query that stores a default record for an id it does not know
get_task_status_default(task_id) ==
    IF task_id \notin DOMAIN task_store
    THEN [response |-> [code |-> 404],
          task_store |-> (task_id :> [request |-> RequestDict(None, None, None, 0),
                                      status |-> "processing"]) @@ task_store]
    ELSE [response |-> [code |-> 200, task_id |-> task_id,
                        status |-> task_store[task_id].status,
                        request |-> task_store[task_id].request],
          task_store |-> task_store]

\* GET /api/status/{task_id}: the response and the store the query leaves
get_task_status(task_id) ==
    [response |-> StatusResponse(task_store, task_id), task_store |-> task_store]

\* the state a POST handler leaves
Handled(out) ==
    /\ Len(out.runs) <= MaxRuns
    /\ SECRET_STORE' = out.SECRET_STORE
    /\ task_store' = out.task_store
    /\ runs' = out.runs
    /\ UNCHANGED <<session, trace>>

Deploy == \E e \in Clients, s \in Secrets, t \in Tasks, rd \in BuildRounds :
              Handled(deploy_app(e, s, t, rd))
Revise == \E e \in Clients, s \in Secrets, t \in Tasks, rd \in RevisionRounds :
              Handled(revise_app(e, s, t, rd))
Status == \E id \in TaskIds :
              LET out == get_task_status(id) IN
              /\ out.response.code \in {200, 404}
              /\ task_store' = out.task_store
              /\ UNCHANGED <<SECRET_STORE, runs, session, trace>>

----------------------------------------------------------------------------
(* Pipeline runs: process_build_request and process_revision_request.  A    *)
(* step runs from one await to the next.                                     *)

\* a coroutine that has returned holds no locals
Finished(run, success) ==
    [run EXCEPT !.pc = "done", !.success = success,
                !.commit_sha = None, !.attempt = 0, !.delay = 0]

\* the except clause writing the notifier's failure status
FailedAsEvaluationFailed(r) ==
    /\ task_store' = SetStatus(task_store, RunId(runs[r]), "evaluation_failed")
    /\ runs' = [runs EXCEPT ![r] = Finished(@, None)]

\* the exception leaving the task: the run ends and the record is not written
FailedUnhandled(r) ==
    /\ runs' = [runs EXCEPT ![r] = Finished(@, None)]
    /\ UNCHANGED task_store

\* "except Exception as e: task_store[...]["status"] = "failed""
Failed(r) ==
    /\ task_store' = SetStatus(task_store, RunId(runs[r]), "failed")
    /\ runs' = [runs EXCEPT ![r] = Finished(@, None)]

\* the background task starts: save_attachments, then the generation adapter
\* is called and awaited
StartBuildStep(r) ==
    /\ runs[r].kind = "build"
    /\ runs[r].pc = "scheduled"
    /\ runs' = [runs EXCEPT ![r].pc = "generate",
                            ![r].stages = Append(@, "generate")]
    /\ UNCHANGED <<task_store, session>>

\* original_request = task_store[round1_task_id]["request"];
\* repo_name = original_request.get("repo_name")
original_repo_name(store, task) ==
    LET round1_task_id == TaskId(task, 1)
        original_request == store[round1_task_id].request
    IN  DictGet(original_request, "repo_name")

\* the revision task starting without the test of the repository name
StartRevisionStepNoCheck(r) ==
    /\ runs[r].kind = "revision"
    /\ runs[r].pc = "scheduled"
    /\ runs' = [runs EXCEPT ![r].pc = "generate",
                            ![r].stages = Append(@, "generate")]
    /\ UNCHANGED <<task_store, session>>

\* the revision task starts: the repository name is read from the round-1
\* record's stored request; without it the run raises
StartRevisionStep(r) ==
    /\ runs[r].kind = "revision"
    /\ runs[r].pc = "scheduled"
    /\ LET repo_name == original_repo_name(task_store, runs[r].req.task)
       IN  IF repo_name = None \/ repo_name = ""
           THEN Failed(r)
           ELSE /\ runs' = [runs EXCEPT ![r].pc = "generate",
                                        ![r].stages = Append(@, "generate")]
                /\ UNCHANGED task_store
    /\ UNCHANGED session

\* a generation error swallowed: the run publishes whatever came back
GenerateStepSwallow(r, ok) ==
    /\ runs[r].pc = "generate"
    /\ runs' = [runs EXCEPT ![r].pc = "publish",
                            ![r].stages = Append(@, "publish")]
    /\ UNCHANGED <<task_store, session>>

\* generate_app_code returns or raises; on return the publication adapter
\* (create_repository / update_repository) is called and awaited
GenerateStep(r, ok) ==
    /\ runs[r].pc = "generate"
    /\ IF ok
       THEN /\ runs' = [runs EXCEPT ![r].pc = "publish",
                                    ![r].stages = Append(@, "publish")]
            /\ UNCHANGED task_store
       ELSE Failed(r)
    /\ UNCHANGED session

\* a publication error ignored: the run goes on to the commit lookup
PublishStepContinue(r, ok) ==
    /\ runs[r].pc = "publish"
    /\ runs' = [runs EXCEPT ![r].pc = "commit",
                            ![r].stages = Append(@, "commit")]
    /\ UNCHANGED <<task_store, session>>

\* the publication adapter returns or raises; on return get_latest_commit is
\* called and awaited
PublishStep(r, ok) ==
    /\ runs[r].pc = "publish"
    /\ IF ok
       THEN /\ runs' = [runs EXCEPT ![r].pc = "commit",
                                    ![r].stages = Append(@, "commit")]
            /\ UNCHANGED task_store
       ELSE Failed(r)
    /\ UNCHANGED session

\* how the lookup inside get_latest_commit ends
CommitOutcomes == {"sha", "GithubException", "Exception"}

\* get_latest_commit returns the sha, returns "unknown" on a GithubException,
\* and lets any other exception through.  On return the payload is built and
\* submit_evaluation starts its first attempt: get_session, then the POST.
CommitStep(r, outcome) ==
    /\ runs[r].pc = "commit"
    /\ IF outcome = "Exception"
       THEN Failed(r) /\ UNCHANGED session
       ELSE /\ runs' = [runs EXCEPT
                  ![r].commit_sha = IF outcome = "sha" THEN "sha" ELSE "unknown",
                  ![r].pc = "post",
                  ![r].stages = Append(@, "notify"),
                  ![r].attempt = 0]
            /\ session' = get_session(session)
            /\ UNCHANGED task_store

\* the status test accepting the whole 2xx class
AttemptOk2xx(outcome) == ~outcome.exc /\ outcome.status >= 200 /\ outcome.status < 300

\* the status test comparing with 201
AttemptOkCreated(outcome) == ~outcome.exc /\ outcome.status = 201

\* "if response.status == 200" inside the try block: whether one POST of
\* submit_evaluation counts as a success
AttemptOk(outcome) == ~outcome.exc /\ outcome.status = 200

\* the backoff test off by one: a sleep follows the last attempt too
SleepsAfterEvery(attempt) == attempt < max_retries

\* "if attempt < max_retries - 1": whether a failed attempt is followed by a sleep
SleepsAfter(attempt) == attempt < max_retries - 1

\* "for attempt in range(max_retries)": whether another iteration follows
LoopContinues(attempt) == attempt + 1 < max_retries

\* the two branches of "if success" exchanged
TerminalStatusSwapped(success) ==
    IF success = "True" THEN "evaluation_failed" ELSE "completed"

\* "if success: ... completed, else: ... evaluation_failed"
TerminalStatus(success) == IF success = "True" THEN "completed" ELSE "evaluation_failed"

\* submit_evaluation returns and the pipeline writes the terminal status
\* the terminal write made only over a record still at processing
ReturnedIfProcessing(r, success) ==
    /\ runs' = [runs EXCEPT ![r] = Finished(@, success)]
    /\ task_store' = IF task_store[RunId(runs[r])].status = "processing"
                     THEN SetStatus(task_store, RunId(runs[r]), TerminalStatus(success))
                     ELSE task_store
    /\ UNCHANGED session

Returned(r, success) ==
    /\ runs' = [runs EXCEPT ![r] = Finished(@, success)]
    /\ task_store' = SetStatus(task_store, RunId(runs[r]), TerminalStatus(success))
    /\ UNCHANGED session

\* the loop moves on after a failed attempt: the next iteration calls
\* get_session and posts; after the last iteration the function returns False
NextIteration(r) ==
    IF LoopContinues(runs[r].attempt)
    THEN /\ runs' = [runs EXCEPT ![r].pc = "post", ![r].attempt = @ + 1]
         /\ session' = get_session(session)
         /\ UNCHANGED task_store
    ELSE Returned(r, "False")

\* one POST of submit_evaluation ends, with a response or an exception
PostStep(r, outcome) ==
    /\ runs[r].pc = "post"
    /\ IF AttemptOk(outcome)
       THEN Returned(r, "True")
       ELSE IF SleepsAfter(runs[r].attempt)
       THEN /\ runs' = [runs EXCEPT ![r].pc = "sleep",
                                    ![r].delay = Delay(runs[r].attempt)]
            /\ UNCHANGED <<task_store, session>>
       ELSE NextIteration(r)

\* asyncio.sleep(delay) ends
SleepStep(r) ==
    /\ runs[r].pc = "sleep"
    /\ NextIteration(r)

Rs == 1..Len(runs)

StartBuild == \E r \in Rs : StartBuildStep(r) /\ UNCHANGED <<SECRET_STORE, trace>>
StartRevision == \E r \in Rs : StartRevisionStep(r) /\ UNCHANGED <<SECRET_STORE, trace>>
Generate == \E r \in Rs, ok \in BOOLEAN :
                GenerateStep(r, ok) /\ UNCHANGED <<SECRET_STORE, trace>>
Publish == \E r \in Rs, ok \in BOOLEAN :
                PublishStep(r, ok) /\ UNCHANGED <<SECRET_STORE, trace>>
Commit == \E r \in Rs, o \in CommitOutcomes :
                CommitStep(r, o) /\ UNCHANGED <<SECRET_STORE, trace>>
Post == \E r \in Rs, o \in Outcomes :
                PostStep(r, o) /\ UNCHANGED <<SECRET_STORE, trace>>
Sleep == \E r \in Rs : SleepStep(r) /\ UNCHANGED <<SECRET_STORE, trace>>

Next ==
    \/ Deploy
    \/ Revise
    \/ Status
    \/ StartBuild
    \/ StartRevision
    \/ Generate
    \/ Publish
    \/ Commit
    \/ Post
    \/ Sleep

Spec == Init /\ [][Next]_vars

\* the next step of run r: the event loop resumes the task once the call it
\* awaits has returned or raised
RunStep(r) ==
    /\ r \in Rs
    /\ \/ StartBuildStep(r)
       \/ StartRevisionStep(r)
       \/ \E ok \in BOOLEAN : GenerateStep(r, ok)
       \/ \E ok \in BOOLEAN : PublishStep(r, ok)
       \/ \E o \in CommitOutcomes : CommitStep(r, o)
       \/ \E o \in Outcomes : PostStep(r, o)
       \/ SleepStep(r)
    /\ UNCHANGED <<SECRET_STORE, trace>>

\* every awaited call returns or raises and the event loop is fair to every
\* task; requests arrive or not as the clients please
SpecFair == Spec /\ \A r \in 1..MaxRuns : WF_vars(RunStep(r))

----------------------------------------------------------------------------
(* Properties of the handlers and the pipeline (Spec) *)

AllStages == <<"generate", "publish", "commit", "notify">>

\* run r returns in this step
Finishes(r) == runs[r].pc # "done" /\ runs'[r].pc = "done"

\* the secret check of a request from email with secret passes
PassesSecretCheck(email, secret) ==
    email \notin DOMAIN SECRET_STORE \/ SECRET_STORE[email] = secret

\* C4: when deploy_app accepts a request, the state in which it returns its
\* response holds the record {task}-{round} with status processing and the
\* new pipeline run scheduled but not started: no stage of it has run, and no
\* other run has moved.
DeployAcceptsBeforeRun ==
    [][\A e \in Clients, s \in Secrets, t \in Tasks, rd \in BuildRounds :
        LET out == deploy_app(e, s, t, rd) IN
        (Handled(out) /\ out.response.code = 200) =>
            /\ out.response.task_id = TaskId(t, rd)
            /\ TaskId(t, rd) \in DOMAIN task_store'
            /\ task_store'[TaskId(t, rd)].status = "processing"
            /\ Len(runs') = Len(runs) + 1
            /\ RunId(runs'[Len(runs')]) = TaskId(t, rd)
            /\ runs'[Len(runs')].pc = "scheduled"
            /\ runs'[Len(runs')].stages = <<>>
            /\ \A r \in Rs : runs'[r] = runs[r]
    ]_vars

\* C4 witness: an accepted build whose run has not started, its record processing
DeployAcceptsWitness ==
    \E r \in Rs :
        /\ runs[r].kind = "build" /\ runs[r].pc = "scheduled"
        /\ task_store[RunId(runs[r])].status = "processing"

\* C5: when the notifier returns True to a build run (generation and
\* publication having succeeded before), the run ends with the record's
\* status completed, and the status query for that id then answers completed.
BuildSuccessCompletes ==
    [][\A r \in Rs :
        (runs[r].kind = "build" /\ Finishes(r) /\ runs'[r].success = "True") =>
            /\ runs'[r].stages = AllStages
            /\ task_store'[RunId(runs[r])].status = "completed"
            /\ get_task_status(RunId(runs[r]))'.response.code = 200
            /\ get_task_status(RunId(runs[r]))'.response.status = "completed"
    ]_vars

\* C5 witness: a finished build run to which the notifier returned True, its
\* record completed and the status query saying so
BuildSuccessWitness ==
    \E r \in Rs :
        /\ runs[r].kind = "build" /\ runs[r].pc = "done"
        /\ runs[r].success = "True"
        /\ task_store[RunId(runs[r])].status = "completed"
        /\ get_task_status(RunId(runs[r])).response.status = "completed"

\* C6: a run whose generation adapter raises ends in that step with status
\* failed, having invoked the generation adapter only; a finished run never
\* moves again, so neither publication nor the notifier is invoked in it.
GenerationErrorFails ==
    [][\A r \in Rs :
        /\ GenerateStep(r, FALSE) =>
            /\ task_store'[RunId(runs[r])].status = "failed"
            /\ runs'[r].pc = "done"
            /\ runs'[r].stages = <<"generate">>
        /\ runs[r].pc = "done" => runs'[r] = runs[r]
    ]_vars

\* C6 witness: a finished run that invoked generation only, its record failed
GenerationErrorWitness ==
    \E r \in Rs :
        /\ runs[r].pc = "done" /\ runs[r].stages = <<"generate">>
        /\ task_store[RunId(runs[r])].status = "failed"

\* C7: the status a run writes when it ends is evaluation_failed exactly when
\* the notifier returned False to it, which happens only after generation and
\* publication succeeded; a run that ends without a notifier result writes
\* failed; and no record becomes evaluation_failed in any other way.
EvaluationFailedIffNotifierFalse ==
    [][ /\ \A r \in Rs :
            Finishes(r) =>
                LET wrote == task_store'[RunId(runs[r])].status IN
                /\ wrote = "evaluation_failed" <=>
                        (runs'[r].success = "False" /\ runs'[r].stages = AllStages)
                /\ runs'[r].success = None => wrote = "failed"
                /\ runs'[r].success = "True" => wrote = "completed"
                /\ runs'[r].success # None => runs'[r].stages = AllStages
        /\ \A id \in DOMAIN task_store :
            (task_store[id].status # "evaluation_failed"
                /\ task_store'[id].status = "evaluation_failed") =>
                    \E r \in Rs : /\ RunId(runs[r]) = id
                                  /\ Finishes(r)
                                  /\ runs'[r].success = "False"
    ]_vars

\* C7 witness: a run finished on the notifier's False, its record evaluation_failed
EvaluationFailedWitness ==
    \E r \in Rs :
        /\ runs[r].pc = "done" /\ runs[r].success = "False"
        /\ runs[r].stages = AllStages
        /\ task_store[RunId(runs[r])].status = "evaluation_failed"

\* C8: a request that fails the secret check is answered 401 by deploy and by
\* revise, and a revision with no round-1 record is answered 404.
ValidationErrorsAre4xx ==
    \A e \in Clients, s \in Secrets, t \in Tasks :
        /\ ~PassesSecretCheck(e, s) =>
            /\ \A rd \in BuildRounds : deploy_app(e, s, t, rd).response.code = 401
            /\ \A rd \in RevisionRounds : revise_app(e, s, t, rd).response.code = 401
        /\ (PassesSecretCheck(e, s) /\ TaskId(t, 1) \notin DOMAIN task_store) =>
            \A rd \in RevisionRounds : revise_app(e, s, t, rd).response.code = 404

\* C9: a revision request that passes the secret check is accepted exactly
\* when the record {task}-1 is in the store, whatever its status; accepting
\* creates {task}-2 with status processing and schedules a revision run.
RevisionAcceptedIffRound1Exists ==
    \A e \in Clients, s \in Secrets, t \in Tasks, rd \in RevisionRounds :
        LET out == revise_app(e, s, t, rd) IN
        PassesSecretCheck(e, s) =>
            /\ out.response.code = 200 <=> TaskId(t, 1) \in DOMAIN task_store
            /\ out.response.code = 200 =>
                /\ TaskId(t, 2) \in DOMAIN out.task_store
                /\ out.task_store[TaskId(t, 2)].status = "processing"
                /\ out.task_store[TaskId(t, 2)].request = RequestDict(e, s, t, rd)
                /\ out.runs = Append(runs, NewRun("revision", RequestDict(e, s, t, rd)))
            /\ out.response.code # 200 =>
                /\ out.task_store = task_store
                /\ out.runs = runs

\* C9 witness: a revision was accepted and scheduled while the round-1 record
\* was still processing
RevisionAcceptedWitness ==
    \E r \in Rs :
        /\ runs[r].kind = "revision" /\ runs[r].pc = "scheduled"
        /\ task_store[RunId(runs[r])].status = "processing"
        /\ task_store[TaskId(runs[r].req.task, 1)].status = "processing"

----------------------------------------------------------------------------
(* The secret registry called directly, each call and its result recorded *)

VerifyCall(email, secret) ==
    LET v == verify_secret(SECRET_STORE, email, secret)
    IN  /\ Len(trace) < MaxCalls
        /\ SECRET_STORE' = v.store
        /\ trace' = Append(trace, [email |-> email, secret |-> secret, ok |-> v.ok])
        /\ UNCHANGED <<task_store, runs, session>>

Verify == \E e \in Emails, s \in Secrets : VerifyCall(e, s)

SpecVerify == Init /\ [][Verify]_vars

----------------------------------------------------------------------------
(* submit_evaluation against a mock endpoint that records every POST, every *)
(* sleep and the return value.  It starts where a build run for alpha-1 has *)
(* had generation, publication and the commit lookup return and has issued  *)
(* the first POST.                                                           *)

NotifyRequest == RequestDict("a@x.com", "s1", "alpha", 1)

InitNotify ==
    /\ SECRET_STORE = ("a@x.com" :> "s1")
    /\ task_store = (TaskId("alpha", 1) :>
                        [request |-> NotifyRequest, status |-> "processing"])
    /\ runs = << [NewRun("build", NotifyRequest) EXCEPT
                    !.pc = "post",
                    !.stages = <<"generate", "publish", "commit", "notify">>,
                    !.commit_sha = "sha"] >>
    /\ session = get_session(NoSession)
    /\ trace = <<>>

\* the return of submit_evaluation, when the step ended the call
ReturnEvent(run) ==
    IF run.pc = "done" THEN <<[ev |-> "return", value |-> run.success]>> ELSE <<>>

\* what the mock sees after a POST: the sleep that follows, or the return
AfterPost(run) ==
    IF run.pc = "sleep" THEN <<[ev |-> "sleep", delay |-> run.delay]>>
    ELSE ReturnEvent(run)

MockPost == \E o \in Outcomes :
    /\ PostStep(1, o)
    /\ trace' = Append(trace, [ev |-> "post", exc |-> o.exc, status |-> o.status])
                    \o AfterPost(runs'[1])
    /\ UNCHANGED SECRET_STORE

MockSleep ==
    /\ SleepStep(1)
    /\ trace' = trace \o ReturnEvent(runs'[1])
    /\ UNCHANGED SECRET_STORE

NotifyNext == MockPost \/ MockSleep

SpecNotify == InitNotify /\ [][NotifyNext]_vars

----------------------------------------------------------------------------
(* Properties of the notifier, over what the mock recorded (SpecNotify) *)

Posts == SelectSeq(trace, LAMBDA e : e.ev = "post")
Sleeps == SelectSeq(trace, LAMBDA e : e.ev = "sleep")
Kinds == [i \in 1..Len(trace) |-> trace[i].ev]
Delays == [i \in 1..Len(Sleeps) |-> Sleeps[i].delay]
HasReturned == trace # <<>> /\ trace[Len(trace)].ev = "return"

\* the endpoint answered 200
PostOk(e) == ~e.exc /\ e.status = 200
\* the endpoint answered anything else, or the transport failed
PostFailed(e) == e.exc \/ e.status # 200
\* the 2xx class of HTTP statuses
IsSuccessStatus(status) == status >= 200 /\ status < 300

\* C1: when every attempt fails (any status but 200, non-success statuses
\* included, or a transport error), submit_evaluation makes exactly 5
\* attempts, sleeps 1, 2, 4 and 8 seconds between them, does not sleep after
\* the 5th, and returns False; it does not stop before.
NotifierExhausts ==
    (\A i \in 1..Len(Posts) : PostFailed(Posts[i])) =>
        /\ Len(Posts) <= 5
        /\ ~HasReturned => runs[1].pc \in {"post", "sleep"}
        /\ HasReturned =>
            /\ Len(Posts) = 5
            /\ Delays = <<1, 2, 4, 8>>
            /\ Kinds = <<"post", "sleep", "post", "sleep", "post", "sleep",
                         "post", "sleep", "post", "return">>
            /\ trace[Len(trace)].value = "False"
            /\ runs[1].pc = "done" /\ runs[1].success = "False"

\* C1 witness: five failed attempts, among them a transport error and a
\* non-success status, and False returned
NotifierExhaustsWitness ==
    /\ HasReturned
    /\ trace[Len(trace)].value = "False"
    /\ Len(Posts) = 5
    /\ \E i \in 1..5 : Posts[i].exc
    /\ \E i \in 1..5 : ~Posts[i].exc /\ Posts[i].status = 500

\* C2: for every k in 1..5, when attempts 1..k-1 fail and attempt k gets 200,
\* submit_evaluation returns True after exactly k attempts: the return follows
\* the k-th POST at once, with k-1 sleeps before it and none after.
NotifierStopsAtSuccess ==
    \A k \in 1..5 :
        ( /\ Len(Posts) >= k
          /\ \A i \in 1..(k - 1) : PostFailed(Posts[i])
          /\ PostOk(Posts[k]) ) =>
            /\ Len(Posts) = k
            /\ Len(Sleeps) = k - 1
            /\ Len(trace) = 2 * k
            /\ trace[2 * k - 1].ev = "post"
            /\ trace[2 * k].ev = "return" /\ trace[2 * k].value = "True"
            /\ runs[1].pc = "done" /\ runs[1].success = "True"

\* C2 witness: four failures, then success on the fifth attempt
NotifierStopsAtSuccessWitness ==
    /\ Len(Posts) = 5
    /\ PostOk(Posts[5])
    /\ HasReturned /\ trace[Len(trace)].value = "True"

\* C3 as stated: an attempt succeeds exactly when the endpoint answers with a
\* success (2xx) status.
AttemptSucceedsIffSuccessStatus ==
    \A i \in 1..Len(trace) :
        trace[i].ev = "post" =>
            ( (trace[i + 1].ev = "return" /\ trace[i + 1].value = "True")
              <=> (~trace[i].exc /\ IsSuccessStatus(trace[i].status)) )

\* C3 amended: an attempt succeeds exactly when the endpoint answers 200;
\* every other status (201 included) and every transport error is a failed
\* attempt, followed by the backoff sleep or, after the 5th, by the return of
\* False; nothing is raised: a finished call has returned True or False.
AttemptSucceedsIffStatus200 ==
    /\ \A i \in 1..Len(trace) :
        trace[i].ev = "post" =>
            /\ (trace[i + 1].ev = "return" /\ trace[i + 1].value = "True")
                    <=> (~trace[i].exc /\ trace[i].status = 200)
            /\ (trace[i].exc \/ trace[i].status # 200) =>
                    \/ trace[i + 1].ev = "sleep"
                    \/ /\ i = 9
                       /\ trace[i + 1].ev = "return"
                       /\ trace[i + 1].value = "False"
    /\ runs[1].pc = "done" =>
            /\ HasReturned
            /\ runs[1].success \in {"True", "False"}
            /\ task_store[RunId(runs[1])].status \in {"completed", "evaluation_failed"}

\* C3 witness: a 201 answer and a transport error were both retried, then a
\* 200 answer ended the call with True
AttemptSucceedsWitness ==
    /\ HasReturned /\ trace[Len(trace)].value = "True"
    /\ \E i \in 1..Len(trace) :
        trace[i].ev = "post" /\ ~trace[i].exc /\ trace[i].status = 201
            /\ trace[i + 1].ev = "sleep"
    /\ \E i \in 1..Len(trace) :
        trace[i].ev = "post" /\ trace[i].exc /\ trace[i + 1].ev = "sleep"

----------------------------------------------------------------------------
(* Properties of the secret registry, over the recorded calls (SpecVerify) *)

\* the first call made for the identity of call i
FirstCall(i) ==
    CHOOSE j \in 1..i :
        /\ trace[j].email = trace[i].email
        /\ \A k \in 1..(j - 1) : trace[k].email # trace[i].email

\* C10: the first verify call for an identity returns true whatever the
\* secret; every later call for it returns true exactly when its secret is
\* the secret of that first call.
VerifyTrustOnFirstUse ==
    \A i \in 1..Len(trace) :
        IF FirstCall(i) = i
        THEN trace[i].ok
        ELSE trace[i].ok <=> (trace[i].secret = trace[FirstCall(i)].secret)

\* C10 witness: after a first call, a call with another secret was refused
\* and a later call with the first secret was accepted
VerifyTrustOnFirstUseWitness ==
    \E i, j, k \in 1..Len(trace) :
        /\ i < j /\ j < k
        /\ FirstCall(k) = i /\ FirstCall(j) = i
        /\ trace[j].secret # trace[i].secret /\ ~trace[j].ok
        /\ trace[k].secret = trace[i].secret /\ trace[k].ok

----------------------------------------------------------------------------
(* Properties of the registry and the store under the whole service (Spec) *)

\* C11: once a secret is bound to an identity, no step of the service -- a
\* deploy or revise request, accepted or rejected, or a step of a run --
\* changes the binding or removes it.
SecretBindingNeverChanges ==
    [][\A e \in DOMAIN SECRET_STORE :
            /\ e \in DOMAIN SECRET_STORE'
            /\ SECRET_STORE'[e] = SECRET_STORE[e]
    ]_vars

\* C11 witness: the binding made by the first request is still there after a
\* deploy and a revise have both been accepted
SecretBindingWitness ==
    /\ "a@x.com" \in DOMAIN SECRET_STORE
    /\ \E r1, r2 \in Rs :
        /\ runs[r1].kind = "build" /\ runs[r2].kind = "revision"
        /\ runs[r1].req.secret = SECRET_STORE["a@x.com"]
        /\ runs[r2].req.secret = SECRET_STORE["a@x.com"]

Terminal == {"completed", "evaluation_failed", "failed"}

\* the runs accepted for task id
RunsOf(rs, id) == {r \in 1..Len(rs) : RunId(rs[r]) = id}

\* a request for id is accepted in this step: a new run is appended for it
Accepts(id) == Len(runs') = Len(runs) + 1 /\ RunId(runs'[Len(runs')]) = id

\* C12 as stated: once a record holds a terminal status (completed,
\* evaluation_failed or failed), its status never changes again.
TerminalStatusAbsorbing ==
    [][\A id \in DOMAIN task_store :
        task_store[id].status \in Terminal =>
            /\ id \in DOMAIN task_store'
            /\ task_store'[id].status = task_store[id].status
    ]_vars

\* C12 amended: a record is never deleted and its status changes only when a
\* request for the same id is accepted (to processing) or when a run for the
\* same id finishes (to a terminal status, the only write a run makes); for an
\* id accepted once, a terminal status never changes again.
TerminalStatusAbsorbingPerAcceptance ==
    [][\A id \in DOMAIN task_store :
        /\ id \in DOMAIN task_store'
        /\ task_store'[id].request # task_store[id].request => Accepts(id)
        /\ task_store'[id].status # task_store[id].status =>
            \/ Accepts(id) /\ task_store'[id].status = "processing"
            \/ /\ \E r \in RunsOf(runs, id) : Finishes(r)
               /\ task_store'[id].status \in Terminal
        /\ (task_store[id].status \in Terminal
                /\ Cardinality(RunsOf(runs', id)) = 1) =>
            task_store'[id].status = task_store[id].status
    ]_vars

\* C12 witness: the round-1 record, accepted once, holds a terminal status
\* and has kept it while a run for another id started and finished
TerminalStatusWitness ==
    /\ TaskId("alpha", 1) \in DOMAIN task_store
    /\ task_store[TaskId("alpha", 1)].status = "completed"
    /\ Cardinality(RunsOf(runs, TaskId("alpha", 1))) = 1
    /\ \E r \in Rs : RunId(runs[r]) = TaskId("alpha", 2) /\ runs[r].pc = "done"

\* C13: a status query for an id the store does not hold answers 404 and a
\* query for an id it holds answers 200 with that id, the record's current
\* status and its stored request; either way the store the query leaves is
\* the store it found (no record added, none modified).
StatusQueryReadsOnly ==
    \A id \in TaskIds :
        LET out == get_task_status(id) IN
        /\ out.task_store = task_store
        /\ IF id \in DOMAIN task_store
           THEN /\ out.response.code = 200
                /\ out.response.task_id = id
                /\ out.response.status = task_store[id].status
                /\ out.response.request = task_store[id].request
           ELSE out.response = [code |-> 404]

\* C13 witness: a store in which one id is known, with a terminal status, and
\* the other is unknown, so that both answers occur
StatusQueryWitness ==
    /\ TaskId("alpha", 1) \in DOMAIN task_store
    /\ task_store[TaskId("alpha", 1)].status \in Terminal
    /\ get_task_status(TaskId("alpha", 1)).response.code = 200
    /\ TaskId("alpha", 2) \notin DOMAIN task_store
    /\ get_task_status(TaskId("alpha", 2)).response.code = 404

\* C14: when a revision for task T is accepted with the round-1 record T-1
\* completed, that record's stored request carries the repository name the
\* run is to recover; a revision run that starts with T-1 completed reads the
\* name and goes on to the generation adapter; and a revision run whose
\* generation, publication update and notification all succeed ends with
\* T-2 completed.
RevisionRecoversRepository ==
    [][\A r \in 1..Len(runs') :
        /\ ( /\ r = Len(runs) + 1
             /\ runs'[r].kind = "revision"
             /\ task_store[TaskId(runs'[r].req.task, 1)].status = "completed" )
           => original_repo_name(task_store', runs'[r].req.task) \notin {None, ""}
        /\ ( /\ r <= Len(runs)
             /\ runs[r].kind = "revision"
             /\ runs[r].pc = "scheduled" /\ runs'[r].pc # "scheduled"
             /\ task_store[TaskId(runs[r].req.task, 1)].status = "completed" )
           => /\ runs'[r].pc = "generate"
              /\ task_store'[RunId(runs[r])].status = "processing"
        /\ ( /\ r <= Len(runs)
             /\ runs[r].kind = "revision"
             /\ Finishes(r) /\ runs'[r].success = "True" )
           => task_store'[RunId(runs[r])].status = "completed"
    ]_vars

IsPrefix(s, t) == Len(s) <= Len(t) /\ s = SubSeq(t, 1, Len(s))

\* C16: the collaborators a run has invoked are always an initial part of
\* generate, publish, commit lookup, notify, and a step invokes at most the
\* next one; the publication adapter is invoked only by the step in which
\* generation returns, the notifier only by the step in which the commit
\* lookup returns after a successful publication; a step in which
\* generation or publication raises invokes nothing more and ends the run,
\* and a run that ended without a notifier result never invoked the notifier.
StagesInOrder ==
    [][\A r \in Rs :
        /\ IsPrefix(runs'[r].stages, AllStages)
        /\ runs'[r].stages # runs[r].stages =>
            /\ runs'[r].stages = SubSeq(AllStages, 1, Len(runs[r].stages) + 1)
            /\ runs'[r].pc # "done"
        /\ Len(runs'[r].stages) > Len(runs[r].stages) /\ Len(runs'[r].stages) = 2
            => runs[r].pc = "generate"
        /\ Len(runs'[r].stages) > Len(runs[r].stages) /\ Len(runs'[r].stages) = 4
            => runs[r].pc = "commit" /\ runs[r].stages = <<"generate", "publish", "commit">>
        /\ runs'[r].pc \in {"post", "sleep"} => runs'[r].stages = AllStages
        /\ (GenerateStep(r, FALSE) \/ PublishStep(r, FALSE)) =>
                /\ runs'[r].stages = runs[r].stages
                /\ runs'[r].pc = "done" /\ runs'[r].success = None
        /\ (Finishes(r) /\ runs'[r].success = None) =>
                Len(runs'[r].stages) < Len(AllStages)
    ]_vars

\* C16 witness: one run is at its first notification attempt, having invoked
\* all four stages in order, while another ended in publication without
\* reaching the commit lookup or the notifier
StagesInOrderWitness ==
    \E r1, r2 \in Rs :
        /\ runs[r1].pc = "post" /\ runs[r1].attempt = 0
        /\ runs[r1].stages = AllStages
        /\ runs[r2].pc = "done" /\ runs[r2].stages = <<"generate", "publish">>

\* C17: whenever the commit lookup fails after a successful publication, by
\* whatever failure, the run does not end in that step: it goes on to the
\* notifier with the sentinel commit id "unknown" in the payload, and a run
\* that notifies with the sentinel ends completed or evaluation_failed as
\* the notifier returns, never failed.
CommitLookupBestEffort ==
    [][\A r \in Rs :
        /\ \A o \in CommitOutcomes \ {"sha"} :
            CommitStep(r, o) =>
                /\ runs'[r].pc = "post"
                /\ runs'[r].commit_sha = "unknown"
                /\ runs'[r].stages = AllStages
                /\ task_store'[RunId(runs[r])].status # "failed"
        /\ (Finishes(r) /\ runs[r].commit_sha = "unknown") =>
                /\ runs'[r].success \in {"True", "False"}
                /\ task_store'[RunId(runs[r])].status =
                        TerminalStatus(runs'[r].success)
    ]_vars

\* C18: a revision run that starts when the stored request of the round-1
\* record carries no repository name ends in that step with T-2 failed,
\* having invoked no collaborator (not generation, publication, the commit
\* lookup or the notifier, and no session is opened), and leaves the T-1
\* record as it was; a run that has ended never moves again.
RevisionWithoutRepositoryFails ==
    [][\A r \in Rs :
        /\ ( /\ runs[r].kind = "revision"
             /\ runs[r].pc = "scheduled" /\ runs'[r].pc # "scheduled"
             /\ original_repo_name(task_store, runs[r].req.task) \in {None, ""} )
           => /\ runs'[r].pc = "done"
              /\ runs'[r].stages = <<>>
              /\ runs'[r].success = None
              /\ task_store'[TaskId(runs[r].req.task, 2)].status = "failed"
              /\ task_store'[TaskId(runs[r].req.task, 1)] =
                    task_store[TaskId(runs[r].req.task, 1)]
              /\ session' = session
        /\ runs[r].pc = "done" => runs'[r].stages = runs[r].stages
    ]_vars

\* C18 witness: a revision run has ended without invoking anything, T-2 is
\* failed and the completed T-1 record is still completed
RevisionWithoutRepositoryWitness ==
    \E r \in Rs :
        /\ runs[r].kind = "revision" /\ runs[r].pc = "done"
        /\ runs[r].stages = <<>>
        /\ task_store[TaskId(runs[r].req.task, 2)].status = "failed"
        /\ task_store[TaskId(runs[r].req.task, 1)].status = "completed"
        /\ original_repo_name(task_store, runs[r].req.task) = None

\* the status a run that has ended wrote: by the notifier's result, or failed
Wrote(run) == IF run.success = None THEN "failed" ELSE TerminalStatus(run.success)

\* C19: a deploy request that passes the secret check is accepted whether or
\* not a record or a run in flight exists for its task id: the record is
\* overwritten with the new request at status processing and a new run is
\* added, the runs in flight going on untouched; and every run, when it
\* ends, writes its own terminal status over whatever the record of its id
\* holds, touching no other run, so the record holds the status of the run
\* that ended last.
LastWriteWins ==
    [][ /\ \A e \in Clients, s \in Secrets, t \in Tasks, rd \in BuildRounds :
            LET out == deploy_app(e, s, t, rd) IN
            (Handled(out) /\ PassesSecretCheck(e, s)) =>
                /\ out.response.code = 200
                /\ task_store'[TaskId(t, rd)] =
                        [request |-> RequestDict(e, s, t, rd), status |-> "processing"]
                /\ Len(runs') = Len(runs) + 1
                /\ \A r \in Rs : runs'[r] = runs[r]
        /\ \A r \in Rs :
            Finishes(r) =>
                /\ task_store'[RunId(runs[r])].status = Wrote(runs'[r])
                /\ \A q \in Rs \ {r} : runs'[q] = runs[q]
                /\ Len(runs') = Len(runs)
    ]_vars

\* C19 witness: two runs were accepted for alpha-1; the one accepted second
\* ended first, on the notifier's False, and the one accepted first ended
\* last, on True: the record is completed
LastWriteWinsWitness ==
    /\ Len(runs) = 2
    /\ RunId(runs[1]) = TaskId("alpha", 1) /\ RunId(runs[2]) = TaskId("alpha", 1)
    /\ runs[1].pc = "done" /\ runs[1].success = "True"
    /\ runs[2].pc = "done" /\ runs[2].success = "False"
    /\ task_store[TaskId("alpha", 1)].status = "completed"

\* C20 as stated: for an identity with no secret bound, two first requests
\* carrying different secrets can both pass the secret check, one of the two
\* secrets remaining bound.  The check has no await, so two calls of it run
\* one after the other, in either order.
FirstRequestsRace ==
    \A e \in Clients :
        e \notin DOMAIN SECRET_STORE =>
            \E s1, s2 \in Secrets :
                LET v1 == verify_secret(SECRET_STORE, e, s1)
                    v2 == verify_secret(v1.store, e, s2)
                IN  /\ s1 # s2
                    /\ v1.ok /\ v2.ok
                    /\ v2.store[e] \in {s1, s2}

\* C20 amended: the secret check is one uninterrupted step.  The first
\* request handled from an identity binds its secret and is accepted; from
\* the state it leaves, a request from that identity with a different secret
\* is not accepted, by deploy or by revise; and every accepted
\* request carries the secret bound to its identity, so no two accepted
\* requests of one identity carry different secrets.
FirstRequestsSerialized ==
    [][ /\ \A e \in Clients, s1 \in Secrets, t \in Tasks, rd \in BuildRounds :
            LET out == deploy_app(e, s1, t, rd) IN
            (Handled(out) /\ e \notin DOMAIN SECRET_STORE) =>
                /\ out.response.code = 200
                /\ SECRET_STORE' = (e :> s1) @@ SECRET_STORE
                /\ \A s2 \in Secrets :
                    /\ deploy_app(e, s2, t, rd)'.response.code = 200 <=> s2 = s1
                    /\ revise_app(e, s2, t, 2)'.response.code = 200 => s2 = s1
                    /\ deploy_app(e, s2, t, rd)'.SECRET_STORE = SECRET_STORE'
        /\ \A r \in 1..Len(runs') :
            /\ runs'[r].req.email \in DOMAIN SECRET_STORE'
            /\ runs'[r].req.secret = SECRET_STORE'[runs'[r].req.email]
    ]_vars

\* C20 witness: the identity's first request was accepted and bound its
\* secret; a request with the other secret is now turned away, and the
\* binding is the first request's
FirstRequestsWitness ==
    /\ Len(runs) = 1
    /\ SECRET_STORE = ("a@x.com" :> runs[1].req.secret)
    /\ \E s2 \in Secrets :
        /\ s2 # runs[1].req.secret
        /\ deploy_app("a@x.com", s2, "alpha", 1).response.code # 200
        /\ deploy_app("a@x.com", s2, "alpha", 1).SECRET_STORE = SECRET_STORE

----------------------------------------------------------------------------
(* Termination of the runs (SpecFair) *)

\* C15: under fair scheduling of the runs, whatever the collaborators return
\* or raise, the service again and again reaches a state in which every
\* accepted run has returned and every record in the store holds a terminal
\* status (completed, evaluation_failed or failed): no accepted request stays
\* at processing for ever; and the notifier never starts a sixth attempt.
EveryRunTerminates ==
    /\ []<>( /\ \A r \in Rs : runs[r].pc = "done"
             /\ \A id \in DOMAIN task_store : task_store[id].status \in Terminal )
    /\ [](\A r \in Rs : runs[r].attempt < max_retries)

\* C15 witness: two accepted runs have both returned, one of them after the
\* notifier's five attempts, and every record holds a terminal status
EveryRunTerminatesWitness ==
    /\ Len(runs) = 2
    /\ \A r \in Rs : runs[r].pc = "done"
    /\ \E r \in Rs : runs[r].success = "False"
    /\ \A id \in DOMAIN task_store : task_store[id].status \in Terminal

----------------------------------------------------------------------------
(* The EvaluationClient under a caller that may call close() at any time:   *)
(* two build runs have had their publication return and are about to look   *)
(* up the commit and notify; no session has been made yet.                   *)

SessionRequest(round) == RequestDict("a@x.com", "s1", "alpha", round)

InitSession ==
    /\ SECRET_STORE = ("a@x.com" :> "s1")
    /\ task_store = [id \in TaskIds |->
                        [request |-> SessionRequest(id[2]), status |-> "processing"]]
    /\ runs = [r \in 1..2 |->
                [NewRun("build", SessionRequest(r)) EXCEPT
                    !.pc = "commit",
                    !.stages = <<"generate", "publish", "commit">>]]
    /\ session = NoSession
    /\ trace = <<>>

\* await evaluation_client.close()
Close ==
    /\ session' = close(session)
    /\ UNCHANGED <<SECRET_STORE, task_store, runs, trace>>

SessionNext == Commit \/ Post \/ Sleep \/ Close

SpecSession == InitSession /\ [][SessionNext]_vars

\* run r starts a notification attempt in this step: get_session, then the POST
StartsAttempt(r) ==
    /\ runs'[r].pc = "post"
    /\ runs[r].pc # "post" \/ runs'[r].attempt # runs[r].attempt

\* C21: the session is made lazily and reused.  The step that starts a
\* notification attempt leaves an open session, the one held before if that
\* was open and a newly made one otherwise; no other step makes a session;
\* close() closes the held session if it is open and changes nothing
\* otherwise, so the session it leaves is never open.
SessionLazyAndReused ==
    [][ /\ \A r \in Rs :
            StartsAttempt(r) =>
                /\ IsOpen(session')
                /\ IsOpen(session) => session' = session
                /\ ~IsOpen(session) => session'.id = session.id + 1
        /\ session'.id # session.id =>
                /\ ~IsOpen(session)
                /\ \E r \in Rs : StartsAttempt(r)
        /\ Close =>
                /\ ~IsOpen(session')
                /\ session'.id = session.id
        /\ ~IsOpen(close(session'))
        /\ ~IsOpen(session') => close(session') = session'
    ]_vars

\* C21 witness: a session was made, closed while in use, and the next
\* attempt made a second one, which is open while a POST is in flight
SessionLazyAndReusedWitness ==
    /\ session.id = 2 /\ IsOpen(session)
    /\ \E r \in Rs : runs[r].pc = "post" /\ runs[r].attempt >= 1

----------------------------------------------------------------------------
(* Properties of the store's records across rounds (Spec) *)

RequestOutcomes ==
    {deploy_app(e, s, t, rd) :
        e \in Clients, s \in Secrets, t \in Tasks, rd \in BuildRounds}
    \cup {revise_app(e, s, t, rd) :
        e \in Clients, s \in Secrets, t \in Tasks, rd \in RevisionRounds}

\* C23: a deploy or revise request that is not accepted leaves the store as
\* it was and schedules no run; a request that fails the secret check is not
\* accepted and leaves the registry as it was too; and a revise request for
\* a task without a round-1 record is not accepted.
RejectionChangesNothing ==
    /\ \A out \in RequestOutcomes :
        out.response.code # 200 =>
            /\ out.task_store = task_store
            /\ out.runs = runs
    /\ \A e \in Clients, s \in Secrets, t \in Tasks :
        /\ ~PassesSecretCheck(e, s) =>
            \A out \in {deploy_app(e, s, t, rd) : rd \in BuildRounds}
                      \cup {revise_app(e, s, t, rd) : rd \in RevisionRounds} :
                /\ out.response.code # 200
                /\ out.SECRET_STORE = SECRET_STORE
        /\ TaskId(t, 1) \notin DOMAIN task_store =>
            \A rd \in RevisionRounds : revise_app(e, s, t, rd).response.code # 200

\* C23 witness: a store holding alpha-2 but no alpha-1, with a run in flight
\* and a secret bound: a request with the other secret is rejected for the
\* mismatch and a revision with the bound secret for the missing round 1
RejectionWitness ==
    /\ "a@x.com" \in DOMAIN SECRET_STORE
    /\ TaskId("alpha", 2) \in DOMAIN task_store
    /\ TaskId("alpha", 1) \notin DOMAIN task_store
    /\ \E r \in Rs : runs[r].pc # "done"
    /\ revise_app("a@x.com", SECRET_STORE["a@x.com"], "alpha", 2).response.code # 200
    /\ \E s \in Secrets :
        /\ ~PassesSecretCheck("a@x.com", s)
        /\ deploy_app("a@x.com", s, "alpha", 1).response.code # 200

----------------------------------------------------------------------------
(* What the status query discloses (Spec) *)

\* the other secret the identity could have supplied
OtherSecret(s) == CHOOSE o \in Secrets : o # s

\* The store of the execution that differs from this one only in the secret
\* the identity supplied: the handlers and the runs use a secret only to
\* compare it with the bound one and to store it, so that execution goes
\* through the same steps and its store holds the other secret wherever
\* this one holds the supplied one.
OtherExecution(store) ==
    [id \in DOMAIN store |->
        [store[id] EXCEPT !.request.secret = OtherSecret(@)]]

\* C24: the status query discloses nothing of the secret: for every task id,
\* the response of GET /api/status/{task_id} in this execution and in the
\* execution that differs only in the secret supplied are identical.
StatusDisclosesNoSecret ==
    \A id \in TaskIds :
        StatusResponse(task_store, id) = StatusResponse(OtherExecution(task_store), id)

====
